---- MODULE Spec2Model ----
(***************************************************************************)
(* Model of the Cloud Run deployment pipeline of cloud-run-mcp             *)
(* (src/cloud-run-deploy.js).  The source file holds two revisions of the  *)
(* deploy module: revision 1 (lines 17-533, with project bootstrap, no     *)
(* dry run) and revision 2 (lines 912-1506, with progress callback and     *)
(* dry run).  The variable rev says which revision the process has loaded. *)
(*                                                                         *)
(* Each deploy() call is a coroutine.  call[c].pc names the remote call    *)
(* (or local asynchronous step) the call is suspended on; one action is    *)
(* the arrival of that call's answer together with the synchronous code    *)
(* that runs up to the next suspension, including the issue of the next    *)
(* remote call through whichever client the module-level handle holds at   *)
(* that moment.                                                            *)
(*                                                                         *)
(* The callers of deploy are either direct (env.tool = "") or one of the   *)
(* deploy tools of src/tools.js, which checks its arguments first and      *)
(* turns the outcome of deploy into a text content.  The add_IAM_Roles     *)
(* tool of src/tools.js is modelled by the variable iam and has its own    *)
(* specification, IamSpec; the loop of addIAMRoles (src/iam-utils.js)      *)
(* runs inside it, one action per gcloud command.                          *)
(*                                                                         *)
(* The server process (src/unnamed/part_001 and part_003, two revisions    *)
(* of the server module) is modelled by the variable server: its mode,     *)
(* the tools each McpServer is given, and the SSE session table;           *)
(* specification ServerSpec.  The identity proxy (src/schemas.js) is       *)
(* modelled by the variable proxy: token cache, refresh timers, stdin,     *)
(* the forwarded request and stdout; specification ProxySpec.              *)
(***************************************************************************)
EXTENDS Integers, Sequences, FiniteSets, TLC

\* ------------------------------------------------------------------ bounds
\* Number of non-terminal build statuses one call may observe.
MaxPolls == 3
\* Number of roles in one add_IAM_Roles request.
MaxRoles == 2

\* Number of SSE connections a client opens to the server.
MaxSessions == 2

\* Number of clock steps the identity proxy is observed for.
MaxTicks == 4

\* Number of token fetches the identity proxy starts.
MaxFetches == 3

\* Number of chunks stdin delivers to the identity proxy.
MaxChunks == 2

\* ------------------------------------------------------- inputs and names
Calls == {1, 2}
Revisions == {1, 2}
NoProject == ""
ProjectIds == {"p1", "p2"}
GeneratedIds == {"mcp-bab-cac"}
AllProjects == ProjectIds \cup GeneratedIds
ServiceNames == {"app", "web"}
Region == "europe-west1"

REPO_NAME == "mcp-cloud-run-deployments"
ZIP_FILE_NAME == "source.zip"
IMAGE_TAG == "latest"

REQUIRED_APIS_1 ==
  << "iam.googleapis.com", "storage.googleapis.com", "cloudbuild.googleapis.com",
     "artifactregistry.googleapis.com", "run.googleapis.com",
     "cloudbilling.googleapis.com" >>

REQUIRED_APIS_2 ==
  << "iam.googleapis.com", "storage.googleapis.com", "cloudbuild.googleapis.com",
     "artifactregistry.googleapis.com", "run.googleapis.com" >>

Range(s) == {s[i] : i \in DOMAIN s}

AllApis == Range(REQUIRED_APIS_1)

\* ------------------------------------------------------------ file inputs
\* A FileInput is a path string (kind "path": base name, whether it exists
\* on the local filesystem, whether it is a directory and the names directly
\* inside it) or an inline {filename, content} object (kind "inline").
PathRef(base, exists, dir, inner) ==
  [kind |-> "path", base |-> base, exists |-> exists, dir |-> dir, inner |-> inner,
   content |-> ""]

InlineFile(base) ==
  [kind |-> "inline", base |-> base, exists |-> FALSE, dir |-> FALSE, inner |-> {},
   content |-> "package main"]

FileLists ==
  { << >>,
    << PathRef("main.go", TRUE, FALSE, {}) >>,
    << PathRef("gone.txt", FALSE, FALSE, {}) >>,
    << PathRef("main.go", TRUE, FALSE, {}), InlineFile("DOCKERFILE") >>,
    << InlineFile("main.go"), PathRef("gone.txt", FALSE, FALSE, {}) >>,
    << PathRef("app", TRUE, TRUE, {"Dockerfile", "main.go"}) >> }

\* String.prototype.toLowerCase on the names that occur in the model.
toLowerCase(s) ==
  CASE s = "Dockerfile" -> "dockerfile"
    [] s = "DOCKERFILE" -> "dockerfile"
    [] s = "invokerIamDisabled" -> "invokeriamdisabled"
    [] s = "IAM policy violation" -> "iam policy violation"
    [] s = "roles/OWNER" -> "roles/owner"
    [] s = "roles/Editor" -> "roles/editor"
    [] s = "roles/iam.securityAdmin" -> "roles/iam.securityadmin"
    [] s = "roles/resourcemanager.organizationAdmin" -> "roles/resourcemanager.organizationadmin"
    [] s = "roles/resourcemanager.projectIamAdmin" -> "roles/resourcemanager.projectiamadmin"
    [] s = "roles/resourcemanager.folderIamAdmin" -> "roles/resourcemanager.folderiamadmin"
    [] s = "roles/storage.objectViewer" -> "roles/storage.objectviewer"
    [] OTHER -> s

\* ----------------------------------------------------------------- errors
\* An error is a gRPC status code and a message; a message is a sequence
\* of text fragments (the pieces a template literal concatenates).  The
\* field about is the platform's actual reason, which the code cannot read.
Err(code, message, about) == [code |-> code, message |-> message, about |-> about]

NoError == Err(0, << >>, "")
Found == Err(0, << "OK" >>, "")
NOT_FOUND == 5
INVALID_ARGUMENT == 3

ErrNotFound == Err(NOT_FOUND, << "resource not found" >>, "absent")
ErrAlreadyExists == Err(6, << "resource already exists" >>, "duplicate")
ErrDenied == Err(7, << "permission denied" >>, "permission")
ErrEnoent == Err(0, << "ENOENT: no such file or directory" >>, "file")

\* Answers the platform can give to a validateOnly create/update.
DryRunErrors ==
  { Err(INVALID_ARGUMENT, << "invokerIamDisabled", "is not allowed" >>, "invokerIamDisabled"),
    Err(9, << "IAM policy violation" >>, "invokerIamDisabled"),
    Err(INVALID_ARGUMENT, << "template.containers[0].image", "is invalid" >>, "image"),
    Err(8, << "quota exceeded" >>, "quota") }

\* message.includes(fragment), for a fragment that is one text piece
includes(message, fragment) == \E i \in DOMAIN message : message[i] = fragment

LowerMessage(message) == [i \in DOMAIN message |-> toLowerCase(message[i])]

\* The message of one error appears in full inside another message.
Carries(message, inner) ==
  /\ inner # << >>
  /\ \E k \in 0..(Len(message) - Len(inner)) :
       \A i \in DOMAIN inner : message[k + i] = inner[i]

\* ------------------------------------------------------------ build states
TerminalStatuses == {"SUCCESS", "FAILURE", "INTERNAL_ERROR", "TIMEOUT", "CANCELLED"}
WorkingStatuses == {"QUEUED", "WORKING"}
BuildStatuses == TerminalStatuses \cup WorkingStatuses \cup {"EXPIRED"}

NoBuild == [status |-> "none", steps |-> << >>, source |-> 0, images |-> << >>, logUrl |-> ""]
LogUrl(c) == IF c = 1 THEN "https://console.cloud.google.com/cloud-build/builds/1"
                      ELSE "https://console.cloud.google.com/cloud-build/builds/2"

NoService == [image |-> << >>, public |-> FALSE, present |-> FALSE]

VARIABLES
  env,                    \* the callers and the platform's disposition
  rev,                    \* revision of the deploy module loaded by the process
  exited,                 \* process.exit was called
  storage,                \* module-level client handles: the project each
  cloudBuildClient,       \*   client was constructed for ("" = undefined)
  artifactRegistryClient,
  runClient,
  call,                   \* per deploy() invocation: its coroutine state
  projects,               \* platform: existing projects
  enabled,                \* platform: enabled APIs per project
  buckets,                \* platform: projects whose source bucket exists
  repos,                  \* platform: projects whose shared repository exists
  builds,                 \* platform: the build created by each call
  services,               \* platform: Cloud Run services
  objects,                \* platform: per project, whose archive source.zip holds
  iam,                    \* the add_IAM_Roles tool: its invocation
  server,                 \* the MCP server process: mode, tools, SSE sessions
  proxy                   \* the identity proxy process of src/schemas.js

clients == << storage, cloudBuildClient, artifactRegistryClient, runClient >>
platform == << projects, enabled, buckets, repos, builds, services, objects >>
vars == << env, rev, exited, clients, call, platform, iam, server, proxy >>


\* A DeploymentRequest: the arguments of one deploy() invocation.
Request(p, s, f) == [projectId |-> p, serviceName |-> s, files |-> f]

AllRequests ==
  { Request(p, s, f) : p \in ProjectIds \cup {NoProject}, s \in ServiceNames, f \in FileLists }

\* Whether the platform may answer a call with an error it is free to give.
Faults == IF env.faults THEN BOOLEAN ELSE {FALSE}

REQUIRED_APIS == IF rev = 1 THEN REQUIRED_APIS_1 ELSE REQUIRED_APIS_2

\* ------------------------------------------------------- coroutine state
IdleCall ==
  [ pc |-> "idle",
    projectId |-> NoProject, serviceName |-> "app", files |-> << >>,
    currentProjectId |-> NoProject,
    api |-> 0,                    \* index of the API being ensured
    bucket |-> "",                \* storage client that owns the bucket handle
    hasDockerfile |-> FALSE,
    exists |-> FALSE,             \* answer of checkCloudRunServiceExists
    invokerIamDisabled |-> TRUE,  \* the service object still has the setting
    lookup |-> NoError,           \* what runClient.getService answered
    dryRun |-> NoError,           \* what the validateOnly call answered
    polls |-> 0,                  \* getBuild calls issued
    observed |-> << >>,           \* build statuses received, in order
    image |-> << >>,              \* builtImageUrl
    response |-> << >>,           \* text of the content the tool returned
    events |-> << >>,             \* logAndProgress calls: step, level, calls issued before
    err |-> NoError,              \* the error deploy rejected with
    cause |-> NoError,            \* the underlying error that made the step fail
    failedAt |-> "",              \* the step that failed
    ops |-> << >> ]               \* remote calls issued: name, client, argument

\* logAndProgress(message, progressCallback, severity), called by the code of
\* a step (or by deploy itself) after the call has issued Len(r.ops) remote
\* calls.  Revision 1 has no progress callback.
log(r, step, level) ==
  IF rev = 1 THEN r
  ELSE [r EXCEPT !.events = Append(@, [step |-> step, level |-> level, at |-> Len(r.ops)])]

\* The call issues a remote call through a client and suspends on it.
Issue(r, pc, op, by, arg) ==
  [r EXCEPT !.pc = pc, !.ops = Append(@, [op |-> op, by |-> by, arg |-> arg])]

\* The deploy tools (src/tools.js); "" stands for a direct caller of deploy.
Tools == {"deploy_local_files", "deploy_local_folder", "deploy_file_contents"}

\* The catch block of a deploy tool: the text it returns for a deploy that
\* rejected with e.  A direct caller gets the rejection itself.
errorText(e) ==
  CASE env.tool = "" -> << >>
    [] env.tool = "deploy_local_folder" ->
         << "Error deploying folder to Cloud Run: " >> \o e.message
    [] OTHER -> << "Error deploying to Cloud Run: " >> \o e.message

\* The text a deploy tool returns when deploy resolved.
deployedText(r) ==
  IF env.tool = "" THEN << >>
  ELSE << "Cloud Run service ", r.serviceName, " deployed", " in project ", r.projectId >>

\* A step throws: deploy's catch block logs and rethrows the same error,
\* and a tool that called deploy turns it into a text content.
Throw(r, e, cause, at) ==
  [log(r, "deploy", "error") EXCEPT
     !.pc = "failed", !.err = e, !.cause = cause, !.failedAt = at,
     !.response = errorText(e)]

\* The checks a deploy tool makes before it calls deploy: the message of the
\* error the handler throws, << >> if it goes on to call deploy.
toolThrows(files) ==
  CASE env.tool \in {"deploy_local_files", "deploy_file_contents"} /\ Len(files) = 0 ->
         << "No files specified for deployment" >>
    [] env.tool = "deploy_file_contents" /\ \E i \in DOMAIN files : files[i].content = "" ->
         << "File ", (CHOOSE x \in Range(files) : x.content = "").base, " must have content" >>
    [] env.tool = "deploy_local_folder" /\ files[1].base = "" ->
         << "Folder path must be specified and be a non-empty string." >>
    [] OTHER -> << >>

imageUrl(r) == << Region, r.currentProjectId, REPO_NAME, r.serviceName, IMAGE_TAG >>

\* fs.statSync(files[0]) in the Dockerfile scan throws for a missing path.
statThrows(files) ==
  /\ rev = 2
  /\ Len(files) = 1
  /\ files[1].kind = "path"
  /\ ~files[1].exists

\* The Dockerfile scan of deploy.
hasDockerfile(files) ==
  IF rev = 2 /\ Len(files) = 1 /\ files[1].kind = "path" /\ files[1].dir
  THEN "Dockerfile" \in files[1].inner \/ "dockerfile" \in files[1].inner
  ELSE \E i \in DOMAIN files : toLowerCase(files[i].base) = "dockerfile"

\* Variant: a creation replaces what the platform held.
createdAlone(held, x) == {x}

\* The platform after a successful create call: what it held, and x.
created(held, x) == held \cup {x}

\* The add_IAM_Roles tool before it is invoked.
IdleIam ==
  [ pc |-> "idle", project |-> "", serviceAccountEmail |-> "", roles |-> << >>,
    grants |-> << >>,             \* role lists addIAMRolesToGCP was called with
    commands |-> << >>,           \* gcloud commands run: [role, ok]
    bindings |-> {},              \* roles the project's policy binds to the account
    response |-> << >> ]          \* text of the returned content

\* SSE connections are numbered; the transport of connection k has session
\* id k, and no transport has the id UnknownSession.
SessionIds == 1..MaxSessions

UnknownSession == MaxSessions + 1

\* An SSE connection before its GET /sse arrived.
NoConn == [status |-> "none", closed |-> FALSE, tools |-> {}]

\* The server process before its module ran.
IdleServer ==
  [ pc |-> "loaded",
    variant |-> "",               \* revision of the server module that runs
    toolsModule |-> "",           \* revision of the tools module it imports
    gcpInfo |-> FALSE,            \* checkGCP() at startup found a project
    GCP_STDIO |-> FALSE,          \* process.env.GCP_STDIO is set
    stdio |-> NoConn,             \* the server connected to stdin/stdout
    conn |-> [k \in SessionIds |-> NoConn],
    sseTransports |-> {},         \* session ids the table holds
    post |-> [sessionId |-> UnknownSession, status |-> ""] ]   \* last POST /messages

\* Refresh token 5 minutes before it expires (seconds).
TOKEN_REFRESH_BUFFER_SECONDS == 300

\* No token: let cachedIdToken = null.
NoToken == [id |-> 0, exp |-> 0]

\* The identity proxy before its main function ran.
IdleProxy ==
  [ pc |-> "loaded",
    exitCode |-> -1,              \* code the process exited with
    now |-> 0,                    \* Date.now(), in seconds
    idTokenClient |-> FALSE,
    cachedIdToken |-> NoToken,    \* fetch that produced it, and its exp
    tokenRefreshTimeout |-> 0,    \* handle of the timer armed last (0 = null)
    timers |-> {},                \* pending timers: [id, at, due, exp]
    nTimers |-> 0,                \* timers armed so far
    fired |-> 0,                  \* timer callbacks run so far
    fetches |-> {},               \* fetchIdToken calls in flight
    nFetch |-> 0,                 \* fetchIdToken calls started so far
    failed |-> "",                \* who started the fetch that failed
    stdin |-> << >>,              \* chunks the client wrote to stdin
    incomingDataBuffer |-> << >>, \* what the 'data' handler accumulated
    requests |-> << >>,           \* requests sent to the remote
    stdout |-> << >> ]            \* messages written to stdout

\* The state of the process after the module was loaded.
Loaded ==
  /\ rev \in Revisions
  /\ exited = FALSE
  /\ storage = "" /\ cloudBuildClient = ""
  /\ artifactRegistryClient = "" /\ runClient = ""
  /\ call = [c \in Calls |-> IdleCall]
  /\ iam = IdleIam
  /\ server = IdleServer
  /\ proxy = IdleProxy

OldService == [image |-> << "old" >>, public |-> TRUE, present |-> TRUE]

\* The platform before the first deployment: the given APIs are enabled in
\* the existing projects, the source bucket and the repository exist in the
\* projects of B and R, and the services of S exist.
Platform(apis, B, R, S) ==
  /\ projects = ProjectIds
  /\ enabled = [p \in AllProjects |-> IF p \in ProjectIds THEN apis ELSE {}]
  /\ buckets = B
  /\ repos = R
  /\ builds = [c \in Calls |-> NoBuild]
  /\ objects = [p \in AllProjects |-> 0]
  /\ services = [k \in AllProjects \X ServiceNames |->
                   IF k \in S THEN OldService ELSE NoService]

\* One deployment; the platform may fail any call.
Init ==
  /\ env = [requests |-> << AllRequests >>, overlap |-> FALSE, faults |-> TRUE, tool |-> ""]
  /\ Loaded
  /\ \E apis \in {AllApis, AllApis \ {"run.googleapis.com"}},
        B \in {{}, {"p1"}}, R \in {{}, {"p1"}}, S \in {{}, {<< "p1", "app" >>}} :
       Platform(apis, B, R, S)

\* ----------------------------------------------------------------- deploy
\* deploy: the clients are (re)assigned for this call's project, the inputs
\* are scanned for a Dockerfile, and ensureStorageBucketExists takes its
\* bucket handle and asks whether the bucket exists.
initClients(c, r) ==
  /\ storage' = r.currentProjectId
  /\ cloudBuildClient' = r.currentProjectId
  /\ artifactRegistryClient' = r.currentProjectId
  /\ runClient' = r.currentProjectId
  /\ call' = [call EXCEPT ![c] =
       IF statThrows(r.files)
       THEN Throw(r, ErrEnoent, ErrEnoent, "scan")
       ELSE Issue([log(r, "deploy", "info") EXCEPT
                     !.hasDockerfile = hasDockerfile(r.files),
                     !.bucket = r.currentProjectId],
                  "bucket.exists", "bucket.exists", r.currentProjectId, "")]

\* ensureApisEnabled: the loop moves to the next API, or returns to deploy.
nextApi(c, r) ==
  IF r.api < Len(REQUIRED_APIS)
  THEN /\ call' = [call EXCEPT ![c] =
            Issue([r EXCEPT !.api = @ + 1], "getService", "serviceUsage.getService",
                  r.currentProjectId, REQUIRED_APIS[r.api + 1])]
       /\ UNCHANGED clients
  ELSE initClients(c, log(r, "apis", "info"))

FailedToEnsure(api) ==
  Err(0, << "Failed to ensure API [", api, "] is enabled. Please check manually." >>, "")

\* Variant: a project is created whatever id the caller gave.
alwaysBootstrap(p) == TRUE

\* ensureProjectExists: const wasProjectCreated = !projectIdToUse
wasProjectCreated(p) == p = NoProject

\* The caller invokes deploy({projectId, serviceName, files}).
deploy_start(c) ==
  /\ ~exited
  /\ call[c].pc = "idle"
  /\ env.requests # << >>
  /\ \A d \in Calls : d < c => call[d].pc # "idle"
  /\ env.overlap \/ \A d \in Calls : call[d].pc \in {"idle", "done", "failed", "rejected"}
  /\ env' = [env EXCEPT !.requests = Tail(@)]
  /\ \E q \in Head(env.requests) :
       LET p == q.projectId
           f == q.files
           r == [call[c] EXCEPT !.projectId = p, !.serviceName = q.serviceName,
                                !.files = f, !.currentProjectId = p]
           bad == Err(0, << "Files array is required and cannot be empty." >>, "input")
           thrown == Err(0, toolThrows(f), "input")
       IN  IF toolThrows(f) # << >>
           THEN /\ call' = [call EXCEPT ![c] = [r EXCEPT !.pc = "rejected", !.err = thrown]]
                /\ UNCHANGED exited
           ELSE IF rev = 1
           THEN /\ call' = [call EXCEPT ![c] =
                     IF Len(f) = 0 THEN Throw(r, bad, bad, "input")
                     ELSE IF wasProjectCreated(p)
                          THEN Issue(r, "createProject", "createProject", "", "")
                          ELSE Issue([r EXCEPT !.api = 1], "getService", "serviceUsage.getService",
                                     p, REQUIRED_APIS[1])]
                /\ UNCHANGED exited
           ELSE IF p = NoProject \/ Len(f) = 0
                THEN /\ exited' = TRUE              \* process.exit(1)
                     /\ call' = [call EXCEPT ![c] = [r EXCEPT !.pc = "exit"]]
                ELSE /\ call' = [call EXCEPT ![c] = [r EXCEPT !.pc = "import"]]
                     /\ UNCHANGED exited
  /\ UNCHANGED << rev, iam, server, proxy, clients, platform >>

\* Revision 2: the dynamic imports of deploy and ensureApisEnabled resolve;
\* ensureApisEnabled asks for the state of the first API.
deploy_import(c) ==
  /\ ~exited
  /\ call[c].pc = "import"
  /\ call' = [call EXCEPT ![c] =
       Issue([log(@, "apis", "info") EXCEPT !.api = 1], "getService",
             "serviceUsage.getService", @.currentProjectId, REQUIRED_APIS[1])]
  /\ UNCHANGED << env, rev, iam, server, proxy, exited, clients, platform >>

\* ---------------------------------------------------- ensureProjectExists
\* Revision 1: createProject answers.  The generated id may collide.
ensureProjectExists_createProject(c) ==
  /\ ~exited
  /\ call[c].pc = "createProject"
  /\ \E g \in GeneratedIds, fault \in BOOLEAN :
       LET r == call[c]
           e == IF fault THEN ErrDenied ELSE ErrAlreadyExists
       IN  IF fault \/ g \in projects
           THEN /\ call' = [call EXCEPT ![c] = Throw(r, e, e, "project")]
                /\ UNCHANGED projects
           ELSE /\ projects' = created(projects, g)
                /\ call' = [call EXCEPT ![c] =
                     Issue([r EXCEPT !.currentProjectId = g],
                           "listBillingAccounts", "listBillingAccounts", "", "")]
  /\ UNCHANGED << env, rev, iam, server, proxy, exited, objects, clients, enabled, buckets, repos, builds, services >>

\* Billing accounts the caller can see: none (or the listing failed, which
\* listBillingAccounts turns into an empty list), only closed ones, an open one.
OpenBilling ==
  << [name |-> "billingAccounts/A", open |-> FALSE],
     [name |-> "billingAccounts/B", open |-> TRUE] >>

BillingLists ==
  { << >>, << [name |-> "billingAccounts/A", open |-> FALSE] >>, OpenBilling }

ensureProjectExists_listBillingAccounts(c) ==
  /\ ~exited
  /\ call[c].pc = "listBillingAccounts"
  /\ \E accounts \in (IF env.faults THEN BillingLists ELSE {OpenBilling}) :
       LET r == call[c]
           none == Err(0, << "Project ", r.currentProjectId,
                     " was created, but no billing accounts found to attach. Manual billing setup required." >>, "billing")
           closed == Err(0, << "Project ", r.currentProjectId,
                     " was created, but no open billing accounts found. Manual billing setup required." >>, "billing")
       IN  call' = [call EXCEPT ![c] =
             IF Len(accounts) = 0 THEN Throw(r, none, none, "project")
             ELSE IF ~\E i \in DOMAIN accounts : accounts[i].open
                  THEN Throw(r, closed, closed, "project")
                  ELSE Issue(r, "updateProjectBillingInfo", "updateProjectBillingInfo", "",
                             (CHOOSE a \in Range(accounts) : a.open).name)]
  /\ UNCHANGED << env, rev, iam, server, proxy, exited, clients, platform >>

\* attachProjectToBillingAccount answers: null on error, else billing info.
ensureProjectExists_attach(c) ==
  /\ ~exited
  /\ call[c].pc = "updateProjectBillingInfo"
  /\ \E billingEnabled \in {~f : f \in Faults} :
       LET r == call[c]
           e == Err(0, << "Failed to attach project ", r.currentProjectId,
                          " to billing account ", "billingAccounts/B", "." >>, "billing")
       IN  call' = [call EXCEPT ![c] =
             IF ~billingEnabled THEN Throw(r, e, e, "project")
             ELSE Issue([r EXCEPT !.api = 1], "getService", "serviceUsage.getService",
                        r.currentProjectId, REQUIRED_APIS[1])]
  /\ UNCHANGED << env, rev, iam, server, proxy, exited, clients, platform >>

\* ------------------------------------------------------ ensureApisEnabled
\* Variant: the observed state is ignored.
neverEnabled(api, p) == FALSE

\* service.state === 'ENABLED'
isEnabled(api, p) == api \in enabled[p]

\* serviceUsageClient.getService answers for the current API.
ensureApisEnabled_getService(c) ==
  /\ ~exited
  /\ call[c].pc = "getService"
  /\ \E fault \in Faults :
       LET r == call[c]
           api == REQUIRED_APIS[r.api]
       IN  IF fault
           THEN /\ call' = [call EXCEPT ![c] =
                     Throw(log(r, "apis", "error"), FailedToEnsure(api), ErrDenied, "apis")]
                /\ UNCHANGED clients
           ELSE IF isEnabled(api, r.currentProjectId)
                THEN nextApi(c, r)
                ELSE /\ call' = [call EXCEPT ![c] =
                          Issue(log(r, "apis", "info"), "enableService",
                                "serviceUsage.enableService", r.currentProjectId, api)]
                     /\ UNCHANGED clients
  /\ UNCHANGED << env, rev, iam, server, proxy, exited, platform >>

\* serviceUsageClient.enableService and its operation answer.
ensureApisEnabled_enableService(c) ==
  /\ ~exited
  /\ call[c].pc = "enableService"
  /\ \E fault \in Faults :
       LET r == call[c]
           api == REQUIRED_APIS[r.api]
       IN  IF fault
           THEN /\ call' = [call EXCEPT ![c] =
                     Throw(log(r, "apis", "error"), FailedToEnsure(api), ErrDenied, "apis")]
                /\ UNCHANGED << clients, enabled >>
           ELSE /\ enabled' = [enabled EXCEPT ![r.currentProjectId] = created(@, api)]
                /\ nextApi(c, r)
  /\ UNCHANGED << env, rev, iam, server, proxy, exited, objects, projects, buckets, repos, builds, services >>


\* ---------------------------------------------- ensureStorageBucketExists
\* Variant: the bucket is created whatever exists() answered.
bucketAlwaysCreate(r, exists) ==
  Issue(log(r, "bucket", "info"), "createBucket", "createBucket", storage, "")

\* if (exists) return bucket; else storage.createBucket(...): a missing
\* bucket is created through the module-level storage client.
bucketOrCreate(r, exists) ==
  IF exists THEN [log(r, "bucket", "info") EXCEPT !.pc = "zipFiles"]
  ELSE Issue(log(r, "bucket", "info"), "createBucket", "createBucket", storage, "")

\* bucket.exists() answers.
ensureStorageBucketExists_exists(c) ==
  /\ ~exited
  /\ call[c].pc = "bucket.exists"
  /\ \E fault \in Faults :
       LET r == call[c]
       IN  call' = [call EXCEPT ![c] =
             IF fault THEN Throw(log(r, "bucket", "error"), ErrDenied, ErrDenied, "bucket")
             ELSE bucketOrCreate(r, r.currentProjectId \in buckets)]
  /\ UNCHANGED << env, rev, iam, server, proxy, exited, clients, platform >>

\* storage.createBucket answers; the platform rejects a duplicate name.
ensureStorageBucketExists_createBucket(c) ==
  /\ ~exited
  /\ call[c].pc = "createBucket"
  /\ \E fault \in Faults :
       LET r == call[c]
           e == IF fault THEN ErrDenied ELSE ErrAlreadyExists
       IN  IF fault \/ r.currentProjectId \in buckets
           THEN /\ call' = [call EXCEPT ![c] =
                     Throw(log(log(r, "bucket", "error"), "bucket", "error"), e, e, "bucket")]
                /\ UNCHANGED buckets
           ELSE /\ buckets' = created(buckets, r.currentProjectId)
                /\ call' = [call EXCEPT ![c] =
                     [log(r, "bucket", "info") EXCEPT
                        !.pc = "zipFiles", !.bucket = r.ops[Len(r.ops)].by]]
  /\ UNCHANGED << env, rev, iam, server, proxy, exited, objects, clients, projects, enabled, repos, builds, services >>

\* ------------------------------------------------------------------ zipFiles
\* The first entry of the list that zipFiles cannot add, 0 if there is none.
firstBadFile(files) ==
  LET bad == {i \in DOMAIN files : files[i].kind = "path" /\ ~files[i].exists}
  IN  IF bad = {} THEN 0 ELSE CHOOSE i \in bad : \A j \in bad : i <= j

\* The archive is built in memory; then the upload of source.zip is issued
\* through the bucket handle.
zipFiles(c) ==
  /\ ~exited
  /\ call[c].pc = "zipFiles"
  /\ LET r == call[c]
         i == firstBadFile(r.files)
         e == Err(0, << "File or directory not found: ", r.files[i].base >>, "file")
         started == log(r, "archive", "info")
     IN  call' = [call EXCEPT ![c] =
           IF i # 0 THEN Throw(started, e, e, "archive")
           ELSE Issue(log(log(started, "archive", "info"), "upload", "info"),
                      "file.save", "file.save", r.bucket, ZIP_FILE_NAME)]
  /\ UNCHANGED << env, rev, iam, server, proxy, exited, clients, platform >>

\* ------------------------------------------------------ uploadToStorageBucket
\* The build steps triggerCloudBuild chooses: the name of each step's builder.
buildSteps(dockerfile) ==
  IF dockerfile THEN << "gcr.io/cloud-builders/docker" >>
  ELSE << "gcr.io/k8s-skaffold/pack" >>

\* triggerCloudBuild starts: createBuild is issued.
startBuild(r) ==
  Issue(log(r, "build", "info"), "createBuild", "createBuild", cloudBuildClient, "")

\* Variant: the build is triggered right after the upload.
afterUploadBuildFirst(r) == startBuild(r)

\* deploy, after the upload: ensureArtifactRegistryRepoExists looks the
\* repository up through the module-level client.
afterUpload(r) == Issue(r, "getRepository", "getRepository", artifactRegistryClient, "")

\* bucket.file(source.zip).save answers.
uploadToStorageBucket_save(c) ==
  /\ ~exited
  /\ call[c].pc = "file.save"
  /\ \E fault \in Faults :
       LET r == call[c]
       IN  IF fault
           THEN /\ call' = [call EXCEPT ![c] =
                     Throw(log(r, "upload", "error"), ErrDenied, ErrDenied, "upload")]
                /\ UNCHANGED objects
           ELSE /\ objects' = [objects EXCEPT ![r.currentProjectId] = c]
                /\ call' = [call EXCEPT ![c] =
                     afterUpload(log(log(r, "upload", "info"), "upload", "info"))]
  /\ UNCHANGED << env, rev, iam, server, proxy, exited, clients, projects, enabled, buckets, repos,
                  builds, services >>

\* ---------------------------------------- ensureArtifactRegistryRepoExists
\* Variant: a permission error is read as "not found" too.
isNotFoundOrDenied(e) == e.code \in {NOT_FOUND, 7}

\* error.code === 5
isNotFound(e) == e.code = NOT_FOUND

\* getRepository answers: the repository, NOT_FOUND, or another error.
ensureArtifactRegistryRepoExists_getRepository(c) ==
  /\ ~exited
  /\ call[c].pc = "getRepository"
  /\ \E fault \in Faults :
       LET r == call[c]
           e == IF fault THEN ErrDenied ELSE ErrNotFound
       IN  call' = [call EXCEPT ![c] =
             IF ~fault /\ r.currentProjectId \in repos
             THEN startBuild(log(r, "repo", "info"))
             ELSE IF isNotFound(e)
                  THEN Issue(log(r, "repo", "info"), "createRepository", "createRepository",
                             artifactRegistryClient, "")
                  ELSE Throw(log(r, "repo", "error"), e, e, "repo")]
  /\ UNCHANGED << env, rev, iam, server, proxy, exited, clients, platform >>

\* createRepository and its operation answer; the platform rejects a
\* repository id that exists.
ensureArtifactRegistryRepoExists_createRepository(c) ==
  /\ ~exited
  /\ call[c].pc = "createRepository"
  /\ \E fault \in Faults :
       LET r == call[c]
           e == IF fault THEN ErrDenied ELSE ErrAlreadyExists
       IN  IF fault \/ r.currentProjectId \in repos
           THEN /\ call' = [call EXCEPT ![c] = Throw(log(r, "repo", "error"), e, e, "repo")]
                /\ UNCHANGED repos
           ELSE /\ repos' = created(repos, r.currentProjectId)
                /\ call' = [call EXCEPT ![c] =
                     startBuild(log(log(r, "repo", "info"), "repo", "info"))]
  /\ UNCHANGED << env, rev, iam, server, proxy, exited, objects, clients, projects, enabled, buckets, builds, services >>

\* ---------------------------------------------------------- triggerCloudBuild
\* Variants: a status is missing from the list.
pollEndsWithoutFailure(status) ==
  status \in {"SUCCESS", "INTERNAL_ERROR", "TIMEOUT", "CANCELLED"}

pollEndsWithoutTimeout(status) ==
  status \in {"SUCCESS", "FAILURE", "INTERNAL_ERROR", "CANCELLED"}

\* The status list that ends the polling loop.
pollEnds(status) ==
  status \in {"SUCCESS", "FAILURE", "INTERNAL_ERROR", "TIMEOUT", "CANCELLED"}

poll(r) == Issue([r EXCEPT !.polls = @ + 1], "getBuild", "getBuild", cloudBuildClient, "")

\* createBuild answers with the build's id; the first getBuild is issued.
triggerCloudBuild_createBuild(c) ==
  /\ ~exited
  /\ call[c].pc = "createBuild"
  /\ \E fault \in Faults :
       LET r == call[c]
       IN  IF fault
           THEN /\ call' = [call EXCEPT ![c] =
                     Throw(log(r, "build", "error"), ErrDenied, ErrDenied, "build")]
                /\ UNCHANGED builds
           ELSE /\ builds' = [builds EXCEPT ![c] =
                     [status |-> "QUEUED", steps |-> buildSteps(r.hasDockerfile),
                      source |-> objects[r.currentProjectId],
                      images |-> << imageUrl(r) >>,
                      logUrl |-> LogUrl(c)]]
                /\ call' = [call EXCEPT ![c] = poll(log(r, "build", "info"))]
  /\ UNCHANGED << env, rev, iam, server, proxy, exited, objects, clients, projects, enabled, buckets, repos, services >>

\* The error triggerCloudBuild throws for a build that ended without success.
buildFailed(build) == Err(0, << "Cloud Build failed: ", build.status >>, "build")

\* checkCloudRunServiceExists asks for the service.
checkService(r) == Issue(r, "run.getService", "run.getService", runClient, "")

\* getBuild answers.  A status of the list ends the loop: SUCCESS returns the
\* build to deploy, which takes the first image of the results and calls
\* deployToCloudRun; the others throw.  Any other status waits 5 seconds.
triggerCloudBuild_getBuild(c) ==
  /\ ~exited
  /\ call[c].pc = "getBuild"
  /\ \E fault \in Faults :
       LET r == call[c]
           b == builds[c]
           seen == [r EXCEPT !.observed = Append(@, b.status)]
       IN  /\ fault \/ pollEnds(b.status) \/ Len(r.observed) < MaxPolls
           /\ call' = [call EXCEPT ![c] =
                IF fault THEN Throw(log(r, "build", "error"), ErrDenied, ErrDenied, "build")
                ELSE IF ~pollEnds(b.status)
                     THEN [log(seen, "build", "debug") EXCEPT !.pc = "wait"]
                ELSE IF b.status = "SUCCESS"
                     THEN checkService([log(log(seen, "build", "info"), "build", "info")
                                          EXCEPT !.image = b.images[1]])
                     ELSE Throw(log(log(log(seen, "build", "error"), "build", "info"),
                                    "build", "error"),
                                buildFailed(b), buildFailed(b), "build")]
  /\ UNCHANGED << env, rev, iam, server, proxy, exited, clients, platform >>

\* The 5 second timer fires and the next getBuild is issued.
triggerCloudBuild_wait(c) ==
  /\ ~exited
  /\ call[c].pc = "wait"
  /\ call' = [call EXCEPT ![c] = poll(@)]
  /\ UNCHANGED << env, rev, iam, server, proxy, exited, clients, platform >>

\* The platform moves a build through its states.
cloudBuild_advance(c) ==
  /\ ~exited
  /\ \E s \in (IF env.faults THEN BuildStatuses ELSE {"WORKING", "SUCCESS"}) :
       /\ \/ builds[c].status = "QUEUED" /\ s \in {"WORKING", "CANCELLED", "EXPIRED"}
          \/ builds[c].status = "WORKING" /\ s \in TerminalStatuses
       /\ builds' = [builds EXCEPT ![c].status = s]
  /\ UNCHANGED << env, rev, iam, server, proxy, exited, objects, clients, call, projects, enabled, buckets, repos, services >>

\* ------------------------------------------------------------ deployToCloudRun
\* The heuristic that reads a dry-run error as a rejection of invokerIamDisabled.
rejectsInvokerIamDisabled(e) ==
  /\ e.message # << >>
  /\ \/ includes(LowerMessage(e.message), "invokeriamdisabled")
     \/ includes(LowerMessage(e.message), "iam policy violation")
     \/ e.code = INVALID_ARGUMENT

\* The create-or-update call for the service object as it is now.
submit(r) ==
  Issue(log(r, "service", "info"), "deployService",
        IF r.exists THEN "run.updateService" ELSE "run.createService",
        runClient, IF r.invokerIamDisabled THEN "invokerIamDisabled" ELSE "")

\* runClient.getService answers: found, NOT_FOUND, or another error.
\* Revision 2 then issues the validateOnly call, revision 1 the real one.
checkCloudRunServiceExists_getService(c) ==
  /\ ~exited
  /\ call[c].pc = "run.getService"
  /\ \E fault \in Faults :
       LET r == call[c]
           present == services[<< r.currentProjectId, r.serviceName >>].present
           e == IF fault THEN ErrDenied ELSE ErrNotFound
           answer == IF fault \/ ~present THEN e ELSE Found
           known == [log(r, "service", "info") EXCEPT
                       !.exists = (answer = Found), !.lookup = answer]
       IN  call' = [call EXCEPT ![c] =
             IF answer # Found /\ ~isNotFound(answer)
             THEN Throw([log(log(r, "service", "error"), "service", "error")
                           EXCEPT !.lookup = answer], e, e, "service")
             ELSE IF rev = 1 THEN submit(known)
                  ELSE Issue(log(known, "service", "debug"), "dryRun",
                             IF known.exists THEN "run.updateService" ELSE "run.createService",
                             runClient, "validateOnly")]
  /\ UNCHANGED << env, rev, iam, server, proxy, exited, clients, platform >>

\* The validateOnly call answers.
deployToCloudRun_dryRun(c) ==
  /\ ~exited
  /\ call[c].pc = "dryRun"
  /\ \E e \in (IF env.faults THEN DryRunErrors ELSE {}) \cup {NoError} :
       LET r == [call[c] EXCEPT !.dryRun = IF e = NoError THEN Found ELSE e]
           failed == Err(0, << "Dry run validation failed for service ", r.serviceName, ": " >>
                              \o e.message, "")
       IN  call' = [call EXCEPT ![c] =
             IF e = NoError THEN submit(log(r, "service", "debug"))
             ELSE IF rejectsInvokerIamDisabled(e)
                  THEN submit([log(log(r, "service", "warn"), "service", "warn")
                                 EXCEPT !.invokerIamDisabled = FALSE])
                  ELSE Throw(log(log(log(r, "service", "warn"), "service", "error"),
                                 "service", "error"), failed, e, "service")]
  /\ UNCHANGED << env, rev, iam, server, proxy, exited, clients, platform >>

\* createService / updateService and its operation answer.
deployToCloudRun_deploy(c) ==
  /\ ~exited
  /\ call[c].pc = "deployService"
  /\ \E fault \in Faults :
       LET r == call[c]
           k == << r.currentProjectId, r.serviceName >>
           e == IF fault THEN ErrDenied
                ELSE IF r.exists THEN ErrNotFound ELSE ErrAlreadyExists
       IN  IF fault \/ services[k].present # r.exists
           THEN /\ call' = [call EXCEPT ![c] =
                     Throw(log(log(r, "service", "info"), "service", "error"), e, e, "service")]
                /\ UNCHANGED services
           ELSE /\ services' = [services EXCEPT ![k] =
                     [image |-> r.image, public |-> r.invokerIamDisabled, present |-> TRUE]]
                /\ call' = [call EXCEPT ![c] =
                     [log(log(log(r, "service", "info"), "service", "info"),
                          "deploy", "info")
                        EXCEPT !.pc = "done", !.response = deployedText(r)]]
  /\ UNCHANGED << env, rev, iam, server, proxy, exited, objects, clients, projects, enabled, buckets, repos, builds >>

\* -------------------------------------------------------------- add_IAM_Roles
forbiddenRoles ==
  << "roles/owner", "roles/editor", "roles/admin.cloudrun.admin",
     "roles/iam.securityAdmin", "roles/resourcemanager.organizationAdmin",
     "roles/resourcemanager.projectIamAdmin", "roles/resourcemanager.folderIamAdmin" >>

\* Roles a request may name: the entries of the list, other spellings of
\* some of them, the roles the unit tests expect to be blocked, harmless roles.
RoleNames ==
  Range(forbiddenRoles) \cup
  { "roles/OWNER", "roles/Editor", "roles/iam.securityadmin",
    "roles/admin", "roles/cloudrun.admin",
    "roles/run.invoker", "roles/storage.objectViewer" }

RoleLists == UNION { [1..n -> RoleNames] : n \in 0..MaxRoles }

ServiceAccounts == {"", "sa@p1.iam.gserviceaccount.com"}

\* Array.prototype.includes
arrayIncludes(array, x) == \E i \in DOMAIN array : array[i] = x

\* forbiddenRoles.includes(role.toLowerCase())
isForbidden(role) == arrayIncludes(forbiddenRoles, toLowerCase(role))

\* for (const role of roles) if forbidden return ...; then the grant call
\* for the whole list is issued.
checkAndGrant(r) ==
  LET bad == {i \in DOMAIN r.roles : isForbidden(r.roles[i])}
      first == CHOOSE i \in bad : \A j \in bad : i <= j
  IN  IF bad # {}
      THEN [r EXCEPT !.pc = "returned",
                     !.response = << "Error: Adding the role \"", r.roles[first],
                                     "\" is not allowed." >>]
      ELSE [r EXCEPT !.pc = "grant", !.grants = Append(@, r.roles)]

\* The tool is invoked: the arguments are validated, the roles are checked
\* against the list, and addIAMRolesToGCP is called.
add_IAM_Roles(project, serviceAccountEmail, roles) ==
  /\ iam.pc = "idle"
  /\ LET r == [iam EXCEPT !.project = project,
                          !.serviceAccountEmail = serviceAccountEmail,
                          !.roles = roles]
     IN  iam' =
           IF project = ""
           THEN [r EXCEPT !.pc = "returned", !.response =
                   << "Google Cloud project ID must be provided and cannot be empty." >>]
           ELSE IF serviceAccountEmail = ""
           THEN [r EXCEPT !.pc = "returned", !.response =
                   << "Service account email must be provided and cannot be empty." >>]
           ELSE IF Len(roles) = 0
           THEN [r EXCEPT !.pc = "returned", !.response =
                   << "At least one IAM role must be specified as an array" >>]
           ELSE checkAndGrant(r)
  /\ UNCHANGED << env, rev, exited, clients, call, platform, server, proxy >>

\* The loop of addIAMRoles has run one command for every role of the list,
\* whatever the commands answered.
addIAMRoles_stopsAtFailure(r) ==
  \/ Len(r.commands) = Len(r.roles)
  \/ \E i \in DOMAIN r.commands : ~r.commands[i].ok

addIAMRoles_done(r) == Len(r.commands) = Len(r.roles)

\* let allSuccess = true; a failed command sets it to false.
allSuccess(commands) == \A i \in DOMAIN commands : commands[i].ok

\* One round of the loop of addIAMRoles: the gcloud command for the next
\* role answers; a failure is caught, noted, and the loop goes on.
addIAMRoles_exec ==
  /\ iam.pc = "grant"
  /\ ~addIAMRoles_done(iam)
  /\ \E ok \in BOOLEAN :
       LET role == iam.roles[Len(iam.commands) + 1]
       IN  iam' = [iam EXCEPT
                     !.commands = Append(@, [role |-> role, ok |-> ok]),
                     !.bindings = IF ok THEN @ \cup {role} ELSE @]
  /\ UNCHANGED << env, rev, exited, clients, call, platform, server, proxy >>

\* addIAMRolesToGCP answers with success: allSuccess, and the tool turns it
\* into its text; a rejection is turned into a text by the tool's catch.
add_IAM_Roles_answer ==
  /\ iam.pc = "grant"
  /\ addIAMRoles_done(iam)
  /\ iam' = [iam EXCEPT !.pc = "returned", !.response =
               IF allSuccess(iam.commands)
               THEN << "IAM roles " >> \o iam.roles \o << " successfully added" >>
               ELSE << "Failed to add IAM roles " >> \o iam.roles]
  /\ UNCHANGED << env, rev, exited, clients, call, platform, server, proxy >>

\* The client may invoke the tool again.
add_IAM_Roles_return ==
  /\ iam.pc = "returned"
  /\ iam' = IdleIam
  /\ UNCHANGED << env, rev, exited, clients, call, platform, server, proxy >>

\* ------------------------------------------------------------- the MCP server
ServerVariants == {"part_001", "part_003"}

ToolsModules == {"tools.js", "part_008"}

\* The names registerTools passes to server.tool.
registerTools(toolsModule) ==
  { "list_projects", "create_project", "list_services", "get_service",
    "get_service_log", "deploy_local_files", "deploy_local_folder",
    "deploy_file_contents" }
  \cup (IF toolsModule = "tools.js" THEN {"add_IAM_Roles"} ELSE {})

\* registerToolsRemote after checkGCP() answered: it throws when no project
\* was found; src/tools.js then calls createCredentialCheckedRemoteTool,
\* which no module defines or imports, and the other revision calls
\* server.tool four times.
registerToolsRemote(toolsModule, project) ==
  IF ~project THEN [status |-> "rejected", tools |-> {}]
  ELSE IF toolsModule = "tools.js" THEN [status |-> "rejected", tools |-> {}]
  ELSE [status |-> "connected",
        tools |-> { "list_services", "get_service", "get_service_log",
                    "deploy_file_contents" }]

shouldStartStdio(s) ==
  IF s.variant = "part_001" /\ s.GCP_STDIO THEN TRUE
  ELSE IF s.gcpInfo THEN FALSE
  ELSE TRUE

\* const isRemote = !(gcpInfo && gcpInfo.project)
isRemote(s) == ~s.gcpInfo

\* getServer up to its first remote call.  One revision registers the local
\* tools when shouldStartStdio() || !isRemote and then calls
\* registerResources, which it does not import; the other registers the
\* remote tools when a project was found and the local tools otherwise.
\* "awaiting": registerToolsRemote waits for checkGCP().
getServer(s) ==
  IF s.variant = "part_001"
  THEN IF shouldStartStdio(s) \/ ~isRemote(s)
       THEN [status |-> "rejected", tools |-> registerTools(s.toolsModule)]
       ELSE [status |-> "awaiting", tools |-> {}]
  ELSE IF s.gcpInfo
       THEN [status |-> "awaiting", tools |-> {}]
       ELSE [status |-> "connected", tools |-> registerTools(s.toolsModule)]

\* The handler of GET /sse once getServer() answered g: a rejection ends the
\* handler; otherwise the transport is created and put into the table.
tableAfter(table, k, g) ==
  IF g.status = "connected" THEN table \cup {k} ELSE table

\* The module's top level: the startup checkGCP() answers, stdio logging is
\* set up, and the stdio server or the HTTP application is started.
main ==
  /\ server.pc = "loaded"
  /\ \E variant \in ServerVariants, toolsModule \in ToolsModules,
        gcpInfo \in BOOLEAN, GCP_STDIO \in BOOLEAN :
       LET s == [server EXCEPT !.variant = variant, !.toolsModule = toolsModule,
                               !.gcpInfo = gcpInfo, !.GCP_STDIO = GCP_STDIO]
           g == getServer(s)
       IN  server' =
             IF shouldStartStdio(s)
             THEN [s EXCEPT !.stdio = [NoConn EXCEPT !.status = g.status,
                                                     !.tools = g.tools],
                            !.pc = IF g.status = "rejected" THEN "crashed"
                                   ELSE IF variant = "part_001" THEN "stdio"
                                   ELSE "listening"]
             ELSE [s EXCEPT !.pc = "listening"]
  /\ UNCHANGED << env, rev, exited, clients, call, platform, iam, proxy >>

\* GET /sse arrives on connection k: the handler runs up to the first
\* remote call of getServer(), or to its end when there is none.
get_sse(k) ==
  /\ server.pc = "listening"
  /\ server.conn[k].status = "none"
  /\ LET g == getServer(server)
     IN  server' = [server EXCEPT
                      !.conn[k] = [@ EXCEPT !.status = g.status, !.tools = g.tools],
                      !.sseTransports = tableAfter(@, k, g)]
  /\ UNCHANGED << env, rev, exited, clients, call, platform, iam, proxy >>

\* checkGCP() inside registerToolsRemote answers for connection k, and the
\* handler of GET /sse runs to its end: the session is put into the table
\* and the close listener is attached, whether or not the connection is
\* still open.
getServer_answer(k) ==
  /\ server.pc = "listening"
  /\ server.conn[k].status = "awaiting"
  /\ \E project \in BOOLEAN :
       LET g == registerToolsRemote(server.toolsModule, project)
       IN  server' = [server EXCEPT
                        !.conn[k] = [@ EXCEPT !.status = g.status, !.tools = g.tools],
                        !.sseTransports = tableAfter(@, k, g)]
  /\ UNCHANGED << env, rev, exited, clients, call, platform, iam, proxy >>

\* The client closes connection k: the response emits "close" once, and
\* the listeners attached at that moment run.
sse_close(k) ==
  /\ server.pc = "listening"
  /\ server.conn[k].status # "none"
  /\ ~server.conn[k].closed
  /\ server' = [server EXCEPT
                  !.conn[k].closed = TRUE,
                  !.sseTransports = IF server.conn[k].status = "connected"
                                    THEN @ \ {k} ELSE @]
  /\ UNCHANGED << env, rev, exited, clients, call, platform, iam, proxy >>

\* POST /messages?sessionId=sid
post_messages(sessionId) ==
  /\ server.pc = "listening"
  /\ LET transport == sessionId \in server.sseTransports
     IN  server' = [server EXCEPT !.post =
                      [sessionId |-> sessionId,
                       status |-> IF transport THEN "handlePostMessage" ELSE "400"]]
  /\ UNCHANGED << env, rev, exited, clients, call, platform, iam, proxy >>

\* ---------------------------------------------------------- the identity proxy
\* The clock advances in steps of half the refresh buffer.
Tick == TOKEN_REFRESH_BUFFER_SECONDS \div 2

\* Lifetimes of the tokens the provider issues: shorter than the buffer,
\* and longer than it.
Lifetimes == {Tick, 4 * Tick}

Chunks == {"a", "b"}

\* A variant that looks at expiry only.
tokenNotExpired(token, now) ==
  token # NoToken /\ token.exp > now

\* if (cachedIdToken) ... expiryTimeMs > Date.now() + TOKEN_REFRESH_BUFFER_SECONDS * 1000
tokenStillValid(token, now) ==
  token # NoToken /\ token.exp > now + TOKEN_REFRESH_BUFFER_SECONDS

\* Math.max(0, (expiresInSeconds - TOKEN_REFRESH_BUFFER_SECONDS) * 1000),
\* as the time the timer is due.
refreshDue(exp, now) ==
  IF exp - now - TOKEN_REFRESH_BUFFER_SECONDS > 0
  THEN exp - TOKEN_REFRESH_BUFFER_SECONDS ELSE now

\* A variant that leaves the timer pending.
keepTimeout(timers, handle) == timers

\* clearTimeout(handle)
clearTimeout(timers, handle) == {t \in timers : t.id # handle}

\* A variant that keeps the last chunk only.
lastChunk(buffer, chunk) == << chunk >>

\* incomingDataBuffer += chunk.toString()
concat(buffer, chunk) == Append(buffer, chunk)

\* process.exit(code)
exit(p, code) == [p EXCEPT !.pc = "exited", !.exitCode = code]

\* A variant in which a failed refresh is only logged.
fetchFailedLogged(p, owner) ==
  IF owner = "timer" THEN [p EXCEPT !.failed = owner]
  ELSE exit([p EXCEPT !.failed = owner], 1)

\* catch (error) { console.error(...); process.exit(1) }
fetchFailed(p, owner) == exit([p EXCEPT !.failed = owner], 1)

\* getOrRefreshIdToken up to fetchIdToken: the call is issued.
startFetch(p, owner) ==
  [p EXCEPT !.nFetch = @ + 1,
            !.fetches = @ \cup {[id |-> p.nFetch + 1, owner |-> owner,
                                 at |-> p.now, cached |-> p.cachedIdToken.exp]}]

\* The request is built with the token and written with the whole buffer.
sendRequest(p, token) ==
  [p EXCEPT !.pc = "forwarding",
            !.requests = Append(@, [body |-> p.incomingDataBuffer,
                                    token |-> token.id])]

\* The lines after a successful fetchIdToken: the token is cached, the
\* pending timer is cleared and a new one is armed.
armRefresh(p, token) ==
  [p EXCEPT !.cachedIdToken = token,
            !.nTimers = @ + 1,
            !.tokenRefreshTimeout = p.nTimers + 1,
            !.timers = clearTimeout(@, p.tokenRefreshTimeout) \cup
                       {[id |-> p.nTimers + 1, at |-> p.now,
                         due |-> refreshDue(token.exp, p.now), exp |-> token.exp]}]

\* What the caller of getOrRefreshIdToken does with the token.
resume(p, owner, token) ==
  CASE owner = "main" -> [p EXCEPT !.pc = "waiting"]
    [] owner = "stdin" -> sendRequest(p, token)
    [] OTHER -> p

\* The main function: the arguments are checked and the first call of
\* getOrRefreshIdToken asks for the token client.
proxy_main ==
  /\ proxy.pc = "loaded"
  /\ \E args \in 0..2 :
       proxy' = IF args # 1 THEN exit(proxy, 1)
                ELSE [proxy EXCEPT !.pc = "client"]
  /\ UNCHANGED << env, rev, exited, clients, call, platform, iam, server >>

\* auth.getIdTokenClient answers: the first fetch is issued, or the
\* rejection ends the process.
getIdTokenClient_answer ==
  /\ proxy.pc = "client"
  /\ \E ok \in BOOLEAN :
       proxy' = IF ok
                THEN startFetch([proxy EXCEPT !.pc = "init", !.idTokenClient = TRUE], "main")
                ELSE exit(proxy, 1)
  /\ UNCHANGED << env, rev, exited, clients, call, platform, iam, server >>

\* fetchIdToken answers for one of the calls in flight: with a token of
\* some lifetime, with a string that is no token, or with a rejection.
fetchIdToken_answer ==
  /\ proxy.pc # "exited"
  /\ \E f \in proxy.fetches :
       LET p == [proxy EXCEPT !.fetches = @ \ {f}]
       IN  \/ \E life \in Lifetimes :
                LET token == [id |-> f.id, exp |-> proxy.now + life]
                IN  proxy' = resume(armRefresh(p, token), f.owner, token)
           \/ proxy' = fetchFailed(p, f.owner)
  /\ UNCHANGED << env, rev, exited, clients, call, platform, iam, server >>

\* The refresh timer fires: its callback calls getOrRefreshIdToken.
refresh_fires ==
  /\ proxy.pc # "exited"
  /\ proxy.nFetch < MaxFetches
  /\ \E t \in proxy.timers :
       /\ proxy.now >= t.due
       /\ LET p == [proxy EXCEPT !.timers = @ \ {t}, !.fired = @ + 1]
          IN  proxy' = IF tokenStillValid(p.cachedIdToken, p.now)
                       THEN p ELSE startFetch(p, "timer")
  /\ UNCHANGED << env, rev, exited, clients, call, platform, iam, server >>

\* stdin delivers a chunk.
stdin_data(chunk) ==
  /\ proxy.pc = "waiting"
  /\ Len(proxy.incomingDataBuffer) < MaxChunks
  /\ proxy' = [proxy EXCEPT !.stdin = Append(@, chunk),
                            !.incomingDataBuffer = concat(@, chunk)]
  /\ UNCHANGED << env, rev, exited, clients, call, platform, iam, server >>

\* stdin ends: the token is taken from the cache or fetched, and the
\* request is sent.
stdin_end ==
  /\ proxy.pc = "waiting"
  /\ tokenStillValid(proxy.cachedIdToken, proxy.now) \/ proxy.nFetch < MaxFetches
  /\ proxy' = IF tokenStillValid(proxy.cachedIdToken, proxy.now)
               THEN sendRequest(proxy, proxy.cachedIdToken)
               ELSE startFetch([proxy EXCEPT !.pc = "ended"], "stdin")
  /\ UNCHANGED << env, rev, exited, clients, call, platform, iam, server >>

\* stdin reports an error.
stdin_error ==
  /\ proxy.pc = "waiting"
  /\ proxy' = exit([proxy EXCEPT !.timers = clearTimeout(@, proxy.tokenRefreshTimeout)], 1)
  /\ UNCHANGED << env, rev, exited, clients, call, platform, iam, server >>

\* The response of the remote has ended: it is parsed and written to
\* stdout, or the parse error is written.
proxyRes_end ==
  /\ proxy.pc = "forwarding"
  /\ \E responseBody \in {"json", "malformed"} :
       proxy' = exit([proxy EXCEPT
                        !.stdout = Append(@, IF responseBody = "json"
                                             THEN "parsedResponse" ELSE "-32700"),
                        !.timers = clearTimeout(@, proxy.tokenRefreshTimeout)], 0)
  /\ UNCHANGED << env, rev, exited, clients, call, platform, iam, server >>

\* The request to the remote fails.
proxyReq_error ==
  /\ proxy.pc = "forwarding"
  /\ proxy' = exit([proxy EXCEPT
                      !.stdout = Append(@, "-32000"),
                      !.timers = clearTimeout(@, proxy.tokenRefreshTimeout)], 1)
  /\ UNCHANGED << env, rev, exited, clients, call, platform, iam, server >>

\* Time passes.
proxy_tick ==
  /\ proxy.pc # "exited"
  /\ proxy.now < MaxTicks * Tick
  /\ proxy' = [proxy EXCEPT !.now = @ + Tick]
  /\ UNCHANGED << env, rev, exited, clients, call, platform, iam, server >>

\* ------------------------------------------------------------ specification
\* Two deployments that may overlap, into projects that have neither the
\* source bucket nor the repository yet, on a platform that answers every
\* call it can answer.  The second goes to another service of the same
\* project, to another project, or to a project still to be created.
MainGo == << PathRef("main.go", TRUE, FALSE, {}) >>

InitConc ==
  /\ env = [requests |-> << {Request("p1", "app", MainGo)},
                            {Request("p1", "web", MainGo), Request("p2", "app", MainGo),
                             Request(NoProject, "app", MainGo)} >>,
            overlap |-> TRUE, faults |-> FALSE, tool |-> ""]
  /\ Loaded
  /\ Platform(AllApis \ {"run.googleapis.com"}, {}, {}, {})

Step(c) ==
  \/ deploy_start(c)
  \/ deploy_import(c)
  \/ ensureProjectExists_createProject(c)
  \/ ensureProjectExists_listBillingAccounts(c)
  \/ ensureProjectExists_attach(c)
  \/ ensureApisEnabled_getService(c)
  \/ ensureApisEnabled_enableService(c)
  \/ ensureStorageBucketExists_exists(c)
  \/ ensureStorageBucketExists_createBucket(c)
  \/ zipFiles(c)
  \/ uploadToStorageBucket_save(c)
  \/ ensureArtifactRegistryRepoExists_getRepository(c)
  \/ ensureArtifactRegistryRepoExists_createRepository(c)
  \/ triggerCloudBuild_createBuild(c)
  \/ triggerCloudBuild_getBuild(c)
  \/ triggerCloudBuild_wait(c)
  \/ checkCloudRunServiceExists_getService(c)
  \/ deployToCloudRun_dryRun(c)
  \/ deployToCloudRun_deploy(c)

Next == \E c \in Calls : Step(c) \/ cloudBuild_advance(c)

Spec == Init /\ [][Next]_vars

ConcSpec == InitConc /\ [][Next]_vars

\* One invocation of a deploy tool with arguments its schema accepts: the
\* project is any string, the files are paths (deploy_local_files), one
\* folder path (deploy_local_folder) or {filename, content} objects.
ToolFiles(tool) ==
  CASE tool = "deploy_local_files" ->
         { << >>, MainGo, << PathRef("gone.txt", FALSE, FALSE, {}) >> }
    [] tool = "deploy_local_folder" ->
         { << PathRef("app", TRUE, TRUE, {"Dockerfile", "main.go"}) >>,
           << PathRef("", FALSE, FALSE, {}) >> }
    [] OTHER ->
         { << >>, << InlineFile("main.go") >>,
           << [InlineFile("main.go") EXCEPT !.content = ""] >> }

InitTool ==
  /\ \E tool \in Tools :
       env = [requests |-> << { Request(p, "app", f) :
                                 p \in {NoProject, "p1"}, f \in ToolFiles(tool) } >>,
              overlap |-> FALSE, faults |-> TRUE, tool |-> tool]
  /\ Loaded
  /\ Platform(AllApis \ {"run.googleapis.com"}, {}, {}, {})

ToolSpec == InitTool /\ [][Next]_vars

\* Invocations of the add_IAM_Roles tool, one at a time; no deployment runs.
InitIam ==
  /\ env = [requests |-> << >>, overlap |-> FALSE, faults |-> TRUE, tool |-> ""]
  /\ Loaded
  /\ Platform(AllApis, {}, {}, {})

NextIam ==
  \/ \E project \in {"", "p1"}, sa \in ServiceAccounts, roles \in RoleLists :
       add_IAM_Roles(project, sa, roles)
  \/ addIAMRoles_exec
  \/ add_IAM_Roles_answer
  \/ add_IAM_Roles_return

IamSpec == InitIam /\ [][NextIam]_vars

\* The server process: it starts in one of its modes, clients open and
\* close SSE connections and post messages; no deployment runs.
InitServer ==
  /\ env = [requests |-> << >>, overlap |-> FALSE, faults |-> TRUE, tool |-> ""]
  /\ Loaded
  /\ Platform(AllApis, {}, {}, {})

NextServer ==
  \/ main
  \/ \E k \in SessionIds : get_sse(k)
  \/ \E k \in SessionIds : getServer_answer(k)
  \/ \E k \in SessionIds : sse_close(k)
  \/ \E sessionId \in SessionIds \cup {UnknownSession} : post_messages(sessionId)

ServerSpec == InitServer /\ [][NextServer]_vars

\* The identity proxy process: one run from its start to its exit.
InitProxy ==
  /\ env = [requests |-> << >>, overlap |-> FALSE, faults |-> TRUE, tool |-> ""]
  /\ Loaded
  /\ Platform(AllApis, {}, {}, {})

NextProxy ==
  \/ proxy_main
  \/ getIdTokenClient_answer
  \/ fetchIdToken_answer
  \/ refresh_fires
  \/ \E chunk \in Chunks : stdin_data(chunk)
  \/ stdin_end
  \/ stdin_error
  \/ proxyRes_end
  \/ proxyReq_error
  \/ proxy_tick

ProxySpec == InitProxy /\ [][NextProxy]_vars

\* The event loop runs every continuation that is ready, and every remote
\* call is answered.
LiveSpec == Init /\ [][Next]_vars /\ \A c \in Calls : WF_vars(Step(c))


\* ------------------------------------------------------------------ claims
\* Position of the pipeline step a remote call belongs to.
StepRank(op) ==
  CASE op \in {"createProject", "listBillingAccounts", "updateProjectBillingInfo"} -> 1
    [] op \in {"serviceUsage.getService", "serviceUsage.enableService"} -> 2
    [] op \in {"bucket.exists", "createBucket"} -> 3
    [] op = "file.save" -> 4
    [] op \in {"getRepository", "createRepository"} -> 5
    [] op \in {"createBuild", "getBuild"} -> 6
    [] OTHER -> 7

\* Position of the step a failure was raised in (the Dockerfile scan runs
\* after API enablement, the archive is built after the bucket is ensured).
FailRank(at) ==
  CASE at = "input" -> 0
    [] at = "project" -> 1
    [] at \in {"apis", "scan"} -> 2
    [] at \in {"bucket", "archive"} -> 3
    [] at = "upload" -> 4
    [] at = "repo" -> 5
    [] at = "build" -> 6
    [] OTHER -> 7

\* Indices of the remote calls of the given names that call c has issued.
Ops(c, names) == {i \in DOMAIN call[c].ops : call[c].ops[i].op \in names}

ServiceOps == {"run.getService", "run.createService", "run.updateService"}

\* C1: the remote calls of one deploy occur in the fixed step order; a build
\* is created only after the upload was answered successfully and the
\* repository was looked up and exists; the service is looked up, created or
\* updated only after the build was observed with status SUCCESS.
C1_FixedOrder ==
  \A c \in Calls :
    LET o == call[c].ops
    IN  /\ \A i, j \in DOMAIN o : i < j => StepRank(o[i].op) <= StepRank(o[j].op)
        /\ \A i \in Ops(c, {"createBuild"}) :
             /\ \E j \in 1..(i - 1) : o[j].op = "file.save" /\ o[j + 1].op = "getRepository"
             /\ call[c].currentProjectId \in repos
        /\ \A i \in Ops(c, ServiceOps) :
             /\ call[c].observed # << >>
             /\ call[c].observed[Len(call[c].observed)] = "SUCCESS"

C1_Witness ==
  \E c \in Calls :
    /\ call[c].pc = "done"
    /\ Ops(c, {"createProject"}) # {}
    /\ Ops(c, {"createBucket"}) # {}
    /\ Ops(c, {"createRepository"}) # {}
    /\ Ops(c, {"run.createService"}) # {}

\* C2: when a step of deploy fails, no remote call of a later step has been
\* made and the error deploy rejects with carries the message of the
\* underlying cause.
C2_FailureCarriesCause ==
  \A c \in Calls :
    call[c].pc = "failed" =>
      /\ \A i \in DOMAIN call[c].ops :
           StepRank(call[c].ops[i].op) <= FailRank(call[c].failedAt)
      /\ Carries(call[c].err.message, call[c].cause.message)

\* C3: when two deploy calls target different projects, every remote call
\* made for a call goes through a client constructed for that call's project
\* (project creation and billing use clients bound to no project).
C3_OwnClients ==
  (call[1].currentProjectId # call[2].currentProjectId) =>
    \A c \in Calls : \A i \in DOMAIN call[c].ops :
      call[c].ops[i].by \in {"", call[c].currentProjectId}

\* C4: when two deploy calls of different services go to the same project,
\* neither fails its bucket or repository ensure step because the resource
\* was created in the meantime.
C4_EnsureSurvivesRace ==
  (/\ call[1].currentProjectId = call[2].currentProjectId
   /\ call[1].serviceName # call[2].serviceName) =>
    \A c \in Calls :
      ~(/\ call[c].pc = "failed"
        /\ call[c].failedAt \in {"bucket", "repo"}
        /\ call[c].cause = ErrAlreadyExists)


\* C5: an ensure step that finds its resource issues no create call and
\* moves on with the handle it has: a call whose bucket lookup is answered
\* while the bucket exists goes on to the archive with no new remote call and
\* the same bucket handle; a call whose repository lookup is answered while
\* the repository exists goes straight on to the build.
C5_EnsureIdempotent ==
  [][ \A c \in Calls :
        /\ ( /\ call[c].pc = "bucket.exists"
             /\ call[c].currentProjectId \in buckets
             /\ call'[c].pc \notin {"bucket.exists", "failed"} )
           => /\ call'[c].pc = "zipFiles"
              /\ call'[c].ops = call[c].ops
              /\ call'[c].bucket = call[c].bucket
        /\ ( /\ call[c].pc = "getRepository"
             /\ call[c].currentProjectId \in repos
             /\ call'[c].pc \notin {"getRepository", "failed"} )
           => /\ call'[c].pc = "createBuild"
              /\ call'[c].ops[Len(call'[c].ops)].op = "createBuild"
              /\ Len(call'[c].ops) = Len(call[c].ops) + 1 ]_vars

C5_Witness ==
  /\ call[1].pc = "done" /\ call[2].pc = "done"
  /\ call[1].currentProjectId = call[2].currentProjectId
  /\ Ops(1, {"createBucket"}) # {} /\ Ops(1, {"createRepository"}) # {}
  /\ Ops(2, {"bucket.exists"}) # {} /\ Ops(2, {"getRepository"}) # {}
  /\ Ops(2, {"createBucket", "createRepository"}) = {}

\* C6: a deployment creates at most one build, exactly one when it completes;
\* only the last observed status can be one of SUCCESS, FAILURE,
\* INTERNAL_ERROR, TIMEOUT, CANCELLED, and once it is, the number of getBuild
\* calls equals the number of statuses observed: four for the sequence
\* QUEUED, WORKING, WORKING, SUCCESS.
C6_PollUntilTerminal ==
  \A c \in Calls :
    LET r == call[c]
        n == Len(r.observed)
        getBuilds == Cardinality(Ops(c, {"getBuild"}))
    IN  /\ Cardinality(Ops(c, {"createBuild"})) <= 1
        /\ r.pc = "done" => Cardinality(Ops(c, {"createBuild"})) = 1
        /\ \A i \in 1..(n - 1) : r.observed[i] \notin TerminalStatuses
        /\ (n > 0 /\ r.observed[n] \in TerminalStatuses) => getBuilds = n
        /\ r.observed = << "QUEUED", "WORKING", "WORKING", "SUCCESS" >> => getBuilds = 4

C6_Witness ==
  \E c \in Calls :
    /\ call[c].pc = "done"
    /\ call[c].observed = << "QUEUED", "WORKING", "WORKING", "SUCCESS" >>

\* C7: the image of every create/update call is the first image of the build
\* results; a deploy that failed because polling ended with a terminal status
\* other than SUCCESS rejects with an error that carries that status and the
\* build's log URL.
C7_BuildOutcome ==
  \A c \in Calls :
    LET r == call[c]
        n == Len(r.observed)
    IN  /\ Ops(c, {"run.createService", "run.updateService"}) # {}
             => r.image = builds[c].images[1]
        /\ ( /\ r.pc = "failed" /\ r.failedAt = "build" /\ n > 0
             /\ r.observed[n] \in TerminalStatuses \ {"SUCCESS"} )
             => /\ includes(r.err.message, r.observed[n])
                /\ includes(r.err.message, builds[c].logUrl)

\* C8: the polling loop is left only when getBuild answers with one of the
\* five terminal statuses (on to the service step, or failure) or when the
\* getBuild call itself fails; any other status leads to the wait and the
\* wait to another getBuild; and once the build has a terminal status, the
\* deploy that polls it eventually finishes.
C8_PollTermination ==
  /\ [][ \A c \in Calls :
           /\ (call[c].pc = "getBuild" /\ call'[c].pc # "getBuild") =>
                \/ /\ builds[c].status \in TerminalStatuses
                   /\ call'[c].pc \in {"run.getService", "failed"}
                \/ /\ builds[c].status \notin TerminalStatuses
                   /\ call'[c].pc = "wait"
                \/ /\ call'[c].pc = "failed"
                   /\ call'[c].cause = ErrDenied
           /\ (call[c].pc = "wait" /\ call'[c].pc # "wait") =>
                call'[c].pc = "getBuild" ]_vars
  /\ \A c \in Calls :
       (call[c].pc \in {"getBuild", "wait"} /\ builds[c].status \in TerminalStatuses)
         ~> (call[c].pc \in {"done", "failed"})

C8_Witness ==
  \E c \in Calls :
    /\ call[c].pc = "done"
    /\ Len(call[c].observed) = MaxPolls + 1
    /\ call[c].observed[1] = "QUEUED"

\* C9: createService is issued exactly when the service lookup answered
\* NOT_FOUND and updateService exactly when it found the service, dry run
\* and real call alike; after any other lookup error the call has failed
\* with neither issued.
C9_CreateOrUpdate ==
  \A c \in Calls :
    LET r == call[c]
        creates == Ops(c, {"run.createService"})
        updates == Ops(c, {"run.updateService"})
    IN  /\ creates # {} <=> r.lookup = ErrNotFound
        /\ updates # {} <=> r.lookup = Found
        /\ r.lookup \notin {NoError, Found, ErrNotFound} =>
             /\ r.pc = "failed"
             /\ creates \cup updates = {}

C9_Witness ==
  \E c \in Calls :
    /\ call[c].pc = "done"
    /\ call[c].lookup = Found
    /\ Cardinality(Ops(c, {"run.updateService"})) = 2

\* C10: at most one real create/update is issued; it lacks invokerIamDisabled
\* exactly when the dry run rejected that setting; after a dry-run failure
\* of any other kind the call has failed with no real create/update issued.
C10_PublicUnlessRejected ==
  \A c \in Calls :
    LET r == call[c]
        real == {i \in Ops(c, {"run.createService", "run.updateService"}) :
                   r.ops[i].arg # "validateOnly"}
    IN  /\ Cardinality(real) <= 1
        /\ \A i \in real :
             r.ops[i].arg = "" <=> r.dryRun.about = "invokerIamDisabled"
        /\ (r.dryRun \notin {NoError, Found} /\ r.dryRun.about # "invokerIamDisabled") =>
             /\ r.pc = "failed"
             /\ real = {}

\* C11: a deploy called with an empty (or missing) files list has failed with
\* the input error, which its caller receives, and has made no remote call.
C11_InvalidFilesRejected ==
  \A c \in Calls :
    (call[c].pc # "idle" /\ call[c].files = << >>) =>
      /\ call[c].pc = "failed"
      /\ call[c].failedAt = "input"
      /\ call[c].err.about = "input"
      /\ call[c].ops = << >>
      /\ ~exited

\* C12: when deploy fails because a listed path does not exist, no API
\* check or enablement, bucket lookup or creation, or upload has been issued.
C12_MissingFileBeforeNetwork ==
  \A c \in Calls :
    (call[c].pc = "failed" /\ call[c].failedAt \in {"archive", "scan"}) =>
      Ops(c, {"serviceUsage.getService", "serviceUsage.enableService",
              "bucket.exists", "createBucket", "file.save"}) = {}

\* The inputs hold a file whose base name is Dockerfile in any letter case:
\* a listed path, an inline filename, or a file inside a directory input.
NamesDockerfile(files) ==
  \E i \in DOMAIN files :
    \/ toLowerCase(files[i].base) = "dockerfile"
    \/ files[i].dir /\ \E n \in files[i].inner : toLowerCase(n) = "dockerfile"

\* C13: every build has exactly one step, and it is the Docker step exactly
\* when the inputs hold a file named Dockerfile (case-insensitively) as a
\* listed path, an inline filename or a file inside a directory input;
\* otherwise it is the buildpack step.
C13_DockerfileSelectsStrategy ==
  \A c \in Calls :
    builds[c].status # "none" =>
      /\ Len(builds[c].steps) = 1
      /\ builds[c].steps[1] \in {"gcr.io/cloud-builders/docker", "gcr.io/k8s-skaffold/pack"}
      /\ builds[c].steps[1] = "gcr.io/cloud-builders/docker"
           <=> NamesDockerfile(call[c].files)

\* C14: a deploy with an explicit project never calls createProject, uses
\* the given id unchanged and starts with the first API check; a deploy
\* without one calls createProject at most once, and when the creation
\* failed it is the only remote call the deploy has made.
C14_BootstrapAtMostOnce ==
  \A c \in Calls :
    LET r == call[c]
        n == Cardinality(Ops(c, {"createProject"}))
    IN  /\ r.projectId # NoProject =>
             /\ n = 0
             /\ r.currentProjectId = r.projectId
             /\ r.ops # << >> => r.ops[1].op = "serviceUsage.getService"
        /\ n <= 1
        /\ (r.pc = "failed" /\ r.failedAt = "project" /\ r.currentProjectId = NoProject)
             => r.ops = << [op |-> "createProject", by |-> "", arg |-> ""] >>

C14_Witness ==
  \E c \in Calls :
    /\ call[c].pc = "failed" /\ call[c].failedAt = "project"
    /\ call[c].projectId = NoProject /\ call[c].currentProjectId = NoProject
    /\ Cardinality(Ops(c, {"createProject"})) = 1
    /\ rev = 1

\* C15: once bootstrap has created the project, a missing open billing
\* account or a failed billing attachment does not make it raise an error.
C15_BillingNonFatal ==
  \A c \in Calls :
    (Ops(c, {"createProject"}) # {} /\ call[c].currentProjectId \in GeneratedIds) =>
      ~(call[c].pc = "failed" /\ call[c].failedAt = "project")

\* C16: the APIs a deploy checks are those of the fixed list, and once all
\* are ensured the billing API is among them exactly when this deploy
\* created its project.
C16_BillingApiIffBootstrap ==
  \A c \in Calls :
    LET checked == {call[c].ops[i].arg : i \in Ops(c, {"serviceUsage.getService"})}
    IN  /\ checked \subseteq Range(REQUIRED_APIS)
        /\ Ops(c, {"bucket.exists"}) # {} =>
             /\ checked = Range(REQUIRED_APIS)
             /\ "cloudbilling.googleapis.com" \in checked
                  <=> Ops(c, {"createProject"}) # {}

\* C17: no step removes a remote resource: every project, enabled API,
\* bucket, repository and service that exists before a step exists after it.
C17_ForwardOnly ==
  [][ /\ projects \subseteq projects'
      /\ \A p \in AllProjects : enabled[p] \subseteq enabled'[p]
      /\ buckets \subseteq buckets'
      /\ repos \subseteq repos'
      /\ \A k \in DOMAIN services : services[k].present => services'[k].present ]_vars

C17_Witness ==
  \E c \in Calls :
    /\ call[c].pc = "failed" /\ call[c].failedAt = "build"
    /\ Ops(c, {"serviceUsage.enableService"}) # {}
    /\ Ops(c, {"createBucket"}) # {} /\ Ops(c, {"createRepository"}) # {}
    /\ call[c].currentProjectId \in buckets \cap repos
    /\ "run.googleapis.com" \in enabled[call[c].currentProjectId]

\* The role is an entry of the denylist, in any letter case.
Denylisted(role) ==
  \E i \in DOMAIN forbiddenRoles : toLowerCase(forbiddenRoles[i]) = toLowerCase(role)

\* The tool was invoked with a project, a service account and some roles.
IamValid ==
  /\ iam.pc # "idle"
  /\ iam.project # "" /\ iam.serviceAccountEmail # "" /\ iam.roles # << >>

\* C18: when a role of the request is denylisted, the grant function has not
\* been called for any role and the response names a denylisted role of the
\* request; when none is and the inputs are valid, the grant function has
\* been called once, with the whole list.
C18_WholesaleRefusal ==
  IamValid =>
    LET bad == {i \in DOMAIN iam.roles : Denylisted(iam.roles[i])}
    IN  /\ bad # {} =>
             /\ iam.grants = << >>
             /\ \E i \in bad : includes(iam.response, iam.roles[i])
        /\ bad = {} => iam.grants = << iam.roles >>

\* Roles the unit tests expect the tool to block.
AssertedBlocked ==
  {"roles/owner", "roles/OWNER", "roles/editor", "roles/admin", "roles/cloudrun.admin"}

\* C19: a request that names an entry of the denylist in any letter case, or
\* a role the unit tests assert as blocked, is answered with the refusal and
\* nothing is granted.
C19_DenylistCaseInsensitive ==
  \A i \in DOMAIN iam.roles :
    (IamValid /\ (Denylisted(iam.roles[i]) \/ iam.roles[i] \in AssertedBlocked)) =>
      /\ iam.pc = "returned"
      /\ iam.grants = << >>
      /\ iam.response[1] = "Error: Adding the role \""

\* C20: a deploy tool whose deploy failed has returned a text content that
\* describes the error, and no invocation of a deploy tool with arguments
\* its schema accepts ends the server process.
C20_ToolAlwaysResponds ==
  /\ \A c \in Calls :
       call[c].pc = "failed" =>
         /\ call[c].response # << >>
         /\ Carries(call[c].response, call[c].err.message)
  /\ ~exited

\* The remote calls that belong to each step that makes remote calls.
StepOps(step) ==
  CASE step = "apis" -> {"serviceUsage.getService", "serviceUsage.enableService"}
    [] step = "bucket" -> {"bucket.exists", "createBucket"}
    [] step = "upload" -> {"file.save"}
    [] step = "repo" -> {"getRepository", "createRepository"}
    [] step = "build" -> {"createBuild", "getBuild"}
    [] OTHER -> ServiceOps

RemoteSteps == {"apis", "bucket", "upload", "repo", "build", "service"}

\* The step has ended: the call is over or has gone on to a later step.
StepOver(c, step) ==
  \/ call[c].pc \in {"done", "failed"}
  \/ \E i \in DOMAIN call[c].ops :
       \A n \in StepOps(step) : StepRank(call[c].ops[i].op) > StepRank(n)

\* C24: with a progress callback, every step that has made a remote call
\* emitted a progress event before its first remote call, and every such
\* step that is over emitted one after its last remote call.
C24_ProgressBeforeAndAfter ==
  \A c \in Calls : \A step \in RemoteSteps :
    LET r == call[c]
        idx == Ops(c, StepOps(step))
        mine == {i \in DOMAIN r.events : r.events[i].step = step}
    IN  (rev = 2 /\ idx # {}) =>
          /\ \E i \in mine : \A j \in idx : r.events[i].at < j
          /\ StepOver(c, step) => \E i \in mine : \A j \in idx : r.events[i].at >= j

\* C25: the APIs are checked in list order; enableService is called for an
\* API only right after its check found it not enabled; a failure ends the
\* step at the API that failed; APIs enabled before stay enabled; and when
\* the step has returned, every listed API is enabled.
C25_ApisSequential ==
  /\ [](\A c \in Calls :
         LET r == call[c]
             o == r.ops
             gs == Ops(c, {"serviceUsage.getService"})
             es == Ops(c, {"serviceUsage.enableService"})
         IN  /\ \A i \in gs : o[i].arg = REQUIRED_APIS[Cardinality({j \in gs : j <= i})]
             /\ \A i \in es : /\ o[i - 1].op = "serviceUsage.getService"
                                /\ o[i - 1].arg = o[i].arg
             /\ (r.pc = "failed" /\ r.failedAt = "apis") =>
                  /\ Len(o) \in gs \cup es
                  /\ o[Len(o)].arg = REQUIRED_APIS[Cardinality(gs)]
             /\ (Ops(c, {"bucket.exists"}) # {} \/ r.failedAt = "scan") =>
                  /\ Cardinality(gs) = Len(REQUIRED_APIS)
                  /\ Range(REQUIRED_APIS) \subseteq enabled[r.currentProjectId])
  /\ [][ \A c \in Calls :
           LET p == call[c].currentProjectId
               api == REQUIRED_APIS[call[c].api]
           IN  call[c].pc = "getService" =>
                 /\ call'[c].pc = "enableService" => api \notin enabled[p]
                 /\ (api \in enabled[p] /\ call'[c].pc # "failed") =>
                      ~\E i \in DOMAIN call'[c].ops :
                          /\ i > Len(call[c].ops)
                          /\ call'[c].ops[i].op = "serviceUsage.enableService"
                 /\ enabled[p] \subseteq enabled'[p] ]_vars

C25_Witness ==
  \E c \in Calls :
    /\ call[c].pc = "failed" /\ call[c].failedAt = "apis"
    /\ Ops(c, {"serviceUsage.enableService"}) # {}
    /\ call[c].ops[Len(call[c].ops)].arg = "cloudbilling.googleapis.com"
    /\ "run.googleapis.com" \in enabled[call[c].currentProjectId]

\* C26: the build of every call reads the archive that this same call
\* uploaded to source.zip.
C26_BuildReadsOwnArchive ==
  \A c \in Calls : builds[c].status # "none" => builds[c].source = c

\* C30: addIAMRoles runs one command per requested role, in list order,
\* also after the command of an earlier role failed; the tool reports
\* success if and only if every command succeeded, and the roles bound to
\* the account are those whose command succeeded, so a call that reports
\* failure may leave a subset of the roles granted.
C30_AllRolesAttempted ==
  /\ \A i \in DOMAIN iam.commands :
       i <= Len(iam.roles) /\ iam.commands[i].role = iam.roles[i]
  /\ iam.bindings = {iam.roles[i] : i \in {j \in DOMAIN iam.commands : iam.commands[j].ok}}
  /\ (iam.pc = "returned" /\ iam.grants # << >>) =>
       /\ Len(iam.commands) = Len(iam.roles)
       /\ (iam.response[1] = "IAM roles ") <=>
            (\A i \in DOMAIN iam.commands : iam.commands[i].ok)
       /\ iam.response[1] \in {"IAM roles ", "Failed to add IAM roles "}

\* A call of two roles reported failure: the first command failed, the
\* second was still run and bound its role.
C30_Witness ==
  /\ iam.pc = "returned"
  /\ Len(iam.commands) = MaxRoles
  /\ ~iam.commands[1].ok
  /\ iam.commands[MaxRoles].ok
  /\ iam.response[1] = "Failed to add IAM roles "
  /\ iam.bindings # {}

\* The servers the process created: the one on stdio, one per SSE connection.
McpServers == {server.stdio} \cup {server.conn[k] : k \in SessionIds}

\* Tools that list or create projects or read the server's file system.
LocalOnlyTools ==
  {"list_projects", "create_project", "deploy_local_files", "deploy_local_folder"}

\* The process runs on the hosting platform and stdio is not forced.
HostedMode == server.gcpInfo /\ ~server.GCP_STDIO

\* C21: when the metadata server yields a project and stdio is not forced,
\* a server is given the remote tools only; the tools that list or create
\* projects or deploy from the file system are registered in local mode only.
C21_ToolsFollowMode ==
  \A m \in McpServers :
    (HostedMode /\ m.tools # {}) =>
      /\ m.tools \cap LocalOnlyTools = {}
      /\ "deploy_file_contents" \in m.tools

\* SSE connections whose transport exists and whose connection is open.
OpenSessions ==
  {k \in SessionIds : server.conn[k].status = "connected" /\ ~server.conn[k].closed}

\* C29: the SSE session table holds exactly the sessions whose connection
\* is open, and POST /messages is handed to a transport if and only if its
\* session id is one of them at that moment; otherwise it is answered 400.
C29_TableIsOpenSessions ==
  /\ [](server.sseTransports = OpenSessions)
  /\ [][server'.post # server.post =>
          server'.post.status =
            IF server'.post.sessionId \in OpenSessions
            THEN "handlePostMessage" ELSE "400"]_vars

FiveMinutes == 5 * 60

\* C22: a token is fetched only when the cache holds no token with more
\* than five minutes left; a successful fetch arms a timer due five minutes
\* before the expiry of its token, or at once when less is left; and every
\* firing of the timer starts a fetch.
C22_TokenCachedAndRefreshed ==
  /\ [](/\ \A f \in proxy.fetches : f.cached = 0 \/ f.cached - f.at <= FiveMinutes
        /\ \A t \in proxy.timers :
             /\ t.exp = proxy.cachedIdToken.exp
             /\ t.due = IF t.exp - t.at > FiveMinutes
                        THEN t.exp - FiveMinutes ELSE t.at)
  /\ [][ /\ proxy'.cachedIdToken # proxy.cachedIdToken =>
            (\E t \in proxy'.timers :
               t.exp = proxy'.cachedIdToken.exp /\ t.at = proxy.now)
        /\ proxy'.fired # proxy.fired =>
            /\ proxy'.nFetch = proxy.nFetch + 1
            /\ \E f \in proxy'.fetches : f.id = proxy'.nFetch /\ f.owner = "timer" ]_vars

\* The timer of the first token fired five minutes before its expiry, the
\* fetch it started succeeded, and the timer of the second token is pending.
C22_Witness ==
  /\ proxy.pc = "waiting"
  /\ proxy.fired = 1
  /\ proxy.cachedIdToken.id = 2
  /\ \E t \in proxy.timers : t.due > t.at /\ t.at > 0

\* C23: one request per process: it is sent at most once, after stdin
\* ended, with everything stdin delivered as its body; at most one message
\* is written to stdout, after the request was sent, and the process has
\* then exited with no refresh timer pending.
C23_OneRequestPerProcess ==
  /\ Len(proxy.requests) <= 1
  /\ proxy.requests # << >> =>
       /\ proxy.pc \in {"forwarding", "exited"}
       /\ proxy.requests[1].body = proxy.stdin
  /\ Len(proxy.stdout) <= 1
  /\ proxy.stdout # << >> =>
       /\ proxy.requests # << >>
       /\ proxy.pc = "exited"
       /\ proxy.timers = {}
       /\ proxy.exitCode = IF proxy.stdout[1] = "-32000" THEN 1 ELSE 0

\* Two chunks were read, sent as one body, and the response was written.
C23_Witness ==
  /\ proxy.stdout = << "parsedResponse" >>
  /\ proxy.exitCode = 0
  /\ Len(proxy.requests[1].body) = MaxChunks
  /\ proxy.requests[1].body[1] # proxy.requests[1].body[MaxChunks]

\* C27: at most one refresh timer is pending, and it is the one whose
\* handle tokenRefreshTimeout holds, also when token fetches overlap.
C27_OneTimerPending ==
  /\ Cardinality(proxy.timers) <= 1
  /\ \A t \in proxy.timers : t.id = proxy.tokenRefreshTimeout

\* The fetch made at the end of stdin armed the second timer while the
\* fetch started by the first timer was in flight; that fetch then
\* succeeded and armed the third timer, the only one pending.
C27_Witness ==
  /\ proxy.pc = "forwarding"
  /\ proxy.fired = 1
  /\ proxy.nTimers = 3
  /\ proxy.cachedIdToken.id < proxy.requests[1].token
  /\ Cardinality(proxy.timers) = 1

\* C28: after a failed token fetch, whoever started it, the process has
\* exited with code 1 and nothing was written to stdout; every request
\* sent carries a token that was fetched.
C28_FailedFetchExits ==
  /\ proxy.failed # "" =>
       /\ proxy.pc = "exited"
       /\ proxy.exitCode = 1
       /\ proxy.stdout = << >>
  /\ \A i \in DOMAIN proxy.requests :
       proxy.requests[i].token \in 1..proxy.nFetch

\* A fetch started by the refresh timer failed while the request was on
\* its way to the remote.
C28_Witness ==
  /\ proxy.failed = "timer"
  /\ proxy.exitCode = 1
  /\ proxy.requests # << >>
  /\ proxy.stdout = << >>

====
